---- MODULE Spec2Model ----
(***************************************************************************)
(* Model of forums/clean_cs_users.py: the loadlms / loadcs / check / fix   *)
(* commands over the sqlite staging database clean_cs_users.db, together   *)
(* with the two live source stores (MySQL auth_user, MongoDB users).       *)
(***************************************************************************)
EXTENDS Integers, Sequences, FiniteSets, TLC

VARIABLES
    lmsStore,   \* live MySQL auth_user: sequence of [id, username, email]
    csStore,    \* live MongoDB users: sequence of documents
    lms_user,   \* staged sqlite table lms_user, as persisted on disk
    cs_user,    \* staged sqlite table cs_user, as persisted on disk
    cmd,        \* sys.argv[1] of the last invocation ("none" before any)
    status,     \* how the last invocation ended
    cur,        \* rows the last loader's source cursor returned
    o_users,    \* result of get_orphaned_cs_users in the last invocation
    c_users,    \* result of get_conflicted_cs_users in the last invocation
    stdout,     \* what the last invocation wrote to sys.stdout
    log,        \* warnings the last invocation logged
    loaded      \* history: loaders that completed, most recent completion last

vars == <<lmsStore, csStore, lms_user, cs_user, cmd, status, cur,
          o_users, c_users, stdout, log, loaded>>

----------------------------------------------------------------------------
(* Bounds of the model *)

\* users the live stores may hold in the pipeline specifications
MaxUsers == 5
\* rows per staged table in SpecStaged
MaxRows == 2
\* rows per staged table in SpecSanity
MaxCount == 200
\* FETCHMANY_SIZE is 10000 in the source; scaled down so that a load of a
\* few rows spans several fetchmany batches
FETCHMANY_SIZE == 2

----------------------------------------------------------------------------
(* Values *)

\* SQL NULL / Python None in a TEXT column
NULL == "NULL"
\* SQL NULL / Python None in an INTEGER column (ids of the stores are >= 1)
NULL_ID == 0

Names  == <<"alice", "bob">>
Emails == <<"a@x.com", "b@x.com">>
LmsIds == {1, 2}
CsIds  == {1, 2, 3}
ReadCounts == {0, 3}

\* usernames and emails of the users created in the pipeline, by id
UserNames == <<"alice", "bob", "carol", "dave", "erin", "frank", "grace", "heidi">>
UserEmails == <<"a@x.com", "b@x.com", "c@x.com", "d@x.com", "e@x.com", "f@x.com",
                "g@x.com", "h@x.com">>

Range(s) == {s[i] : i \in 1..Len(s)}

Min(a, b) == IF a < b THEN a ELSE b

\* str(i) of "{}".format(i), and int(s) for the decimal strings of the model
str(i) == ToString(i)
int(s) == CHOOSE i \in 0..(MaxUsers + 2) : ToString(i) = s

----------------------------------------------------------------------------
(* The sqlite connection: the database file and the open transaction *)

NoTable == [exists |-> FALSE, rows |-> <<>>]
EmptyTable == [exists |-> TRUE, rows |-> <<>>]

\* sqlite3.connect('clean_cs_users.db'): no transaction is open
Connect(lms, cs) ==
    [disk |-> [lms_user |-> lms, cs_user |-> cs],
     tx   |-> [lms_user |-> lms, cs_user |-> cs],
     in_transaction |-> FALSE]

\* what the connection sees: the open transaction, else the file
View(cx) == IF cx.in_transaction THEN cx.tx ELSE cx.disk

\* A DDL statement through the sqlite3 module: an open transaction is
\* committed first and the statement then runs in autocommit mode, so its
\* effect is in the file at once.
ExecuteDDL(cx, name, table) ==
    LET after == [View(cx) EXCEPT ![name] = table]
    IN [disk |-> after, tx |-> after, in_transaction |-> FALSE]

\* DROP TABLE name; OperationalError (no such table) is swallowed
_drop_sqlite_table(cx, name) ==
    IF View(cx)[name].exists THEN ExecuteDDL(cx, name, NoTable) ELSE cx

\* CREATE TABLE name (...)
create_table(cx, name) == ExecuteDDL(cx, name, EmptyTable)

\* INSERT INTO name VALUES ...: the module opens a transaction before DML
execute_insert(cx, name, rows) ==
    LET before == View(cx)
    IN [disk |-> cx.disk,
        tx   |-> [before EXCEPT ![name].rows = @ \o rows],
        in_transaction |-> TRUE]

\* sqlite_cx.commit()
commit(cx) == [disk |-> View(cx), tx |-> View(cx), in_transaction |-> FALSE]

----------------------------------------------------------------------------
(* Loaders *)

\* number of fetchmany calls a complete load of n rows makes (the last one
\* returns no rows)
Fetches(n) == (n + FETCHMANY_SIZE - 1) \div FETCHMANY_SIZE + 1

\* the while loop ending, without an insert, at the first batch that is
\* not full
RECURSIVE lms_fetch_loop_short(_, _, _, _)
lms_fetch_loop_short(cx, remaining, k, failAt) ==
    IF k = failAt THEN [cx |-> cx, ok |-> FALSE]
    ELSE IF Len(remaining) < FETCHMANY_SIZE THEN [cx |-> commit(cx), ok |-> TRUE]
    ELSE lms_fetch_loop_short(
             execute_insert(cx, "lms_user", SubSeq(remaining, 1, FETCHMANY_SIZE)),
             SubSeq(remaining, FETCHMANY_SIZE + 1, Len(remaining)),
             k + 1, failAt)

\* the while loop of load_lms_users from fetchmany call number k on; failAt
\* is the number of the fetchmany/executemany that raises (0: none does)
RECURSIVE lms_fetch_loop(_, _, _, _)
lms_fetch_loop(cx, remaining, k, failAt) ==
    IF k = failAt THEN [cx |-> cx, ok |-> FALSE]
    ELSE IF remaining = <<>> THEN [cx |-> commit(cx), ok |-> TRUE]
    ELSE LET n == Min(FETCHMANY_SIZE, Len(remaining))
             rows == SubSeq(remaining, 1, n)
         IN lms_fetch_loop(execute_insert(cx, "lms_user", rows),
                           SubSeq(remaining, n + 1, Len(remaining)),
                           k + 1, failAt)

\* load_lms_users that keeps an existing table and adds to it
load_lms_users_append(source, cx, failAt) ==
    lms_fetch_loop(IF View(cx)["lms_user"].exists THEN cx
                   ELSE create_table(cx, "lms_user"),
                   source, 1, failAt)

load_lms_users(source, cx, failAt) ==
    lms_fetch_loop(create_table(_drop_sqlite_table(cx, "lms_user"), "lms_user"),
                   source, 1, failAt)

\* one document of users.find() as the row load_cs_users inserts
cs_row(user) ==
    [external_id |-> int(user.external_id),
     username    |-> user.username,
     email       |-> user.email,
     read_count  |-> IF "read_states" \in DOMAIN user
                     THEN Len(user.read_states) ELSE 0]

\* the for loop of load_cs_users from document number k on; failAt is the
\* number of the cursor read (or of its insert) that raises (0: none does)
RECURSIVE cs_insert_loop(_, _, _, _)
cs_insert_loop(cx, remaining, k, failAt) ==
    IF k = failAt THEN [cx |-> cx, ok |-> FALSE]
    ELSE IF remaining = <<>> THEN [cx |-> commit(cx), ok |-> TRUE]
    ELSE cs_insert_loop(execute_insert(cx, "cs_user", <<cs_row(Head(remaining))>>),
                        Tail(remaining), k + 1, failAt)

load_cs_users(source, cx, failAt) ==
    cs_insert_loop(create_table(_drop_sqlite_table(cx, "cs_user"), "cs_user"),
                   source, 1, failAt)

----------------------------------------------------------------------------
(* Reconciler *)

\* "a = b" and "a != b" of SQL are true only of two non-NULL values
IsNull(v) == v = NULL
IsNullId(v) == v = NULL_ID
SqlEq(a, b) == ~IsNull(a) /\ ~IsNull(b) /\ a = b
SqlEqId(a, b) == ~IsNullId(a) /\ ~IsNullId(b) /\ a = b
SqlNeId(a, b) == ~IsNullId(a) /\ ~IsNullId(b) /\ a # b

\* the row of NULLs a LEFT JOIN pairs with an unmatched left row
NullLms == [id |-> NULL_ID, username |-> NULL, email |-> NULL]

\* JoinedUser(*v) of a row of SELECT c.*, l.*
JoinedUser(c, l) ==
    [cs_id |-> c.external_id, cs_username |-> c.username, cs_email |-> c.email,
     cs_read_count |-> c.read_count,
     lms_id |-> l.id, lms_username |-> l.username, lms_email |-> l.email]

JoinedUser_fields ==
    <<"cs_id", "cs_username", "cs_email", "cs_read_count",
      "lms_id", "lms_username", "lms_email">>

\* cs_user c LEFT JOIN lms_user l ON c.external_id = l.id
RECURSIVE LeftJoin(_, _)
LeftJoin(cs, lms) ==
    IF cs = <<>> THEN <<>>
    ELSE LET c == Head(cs)
             m == SelectSeq(lms, LAMBDA l : SqlEqId(c.external_id, l.id))
         IN (IF m = <<>> THEN <<JoinedUser(c, NullLms)>>
             ELSE [i \in 1..Len(m) |-> JoinedUser(c, m[i])])
            \o LeftJoin(Tail(cs), lms)

\* sanity_check with 0.75 <= ratio <= 1.33
sanity_check_inclusive(lms, cs) ==
    IF ~lms.exists \/ ~cs.exists THEN "OperationalError"
    ELSE IF Len(lms.rows) > 0 /\ Len(cs.rows) > 0
            /\ 3 * Len(cs.rows) <= 4 * Len(lms.rows)
            /\ 100 * Len(lms.rows) <= 133 * Len(cs.rows)
         THEN "ok" ELSE "AssertionError"

\* sanity_check: "ok", or the exception that ends the invocation
sanity_check(lms, cs) ==
    IF ~lms.exists THEN "OperationalError"
    ELSE LET lms_user_count == Len(lms.rows) IN
    IF ~(lms_user_count > 0) THEN "AssertionError"
    ELSE IF ~cs.exists THEN "OperationalError"
    ELSE LET cs_user_count == Len(cs.rows) IN
    IF ~(cs_user_count > 0) THEN "AssertionError"
    \* ratio = lms_user_count / cs_user_count; 0.75 < ratio < 1.33, compared
    \* exactly (the double quotient of counts below 2^46 compares with 0.75
    \* and with the double nearest 1.33 as the exact quotient does with 3/4
    \* and 133/100)
    ELSE IF 3 * cs_user_count < 4 * lms_user_count
            /\ 100 * lms_user_count < 133 * cs_user_count
         THEN "ok" ELSE "AssertionError"

\* the query with WHERE l.id IS NOT NULL
get_orphaned_cs_users_not_null(lms, cs) ==
    SelectSeq(LeftJoin(cs.rows, lms.rows), LAMBDA u : ~IsNullId(u.lms_id))

get_orphaned_cs_users(lms, cs) ==
    SelectSeq(LeftJoin(cs.rows, lms.rows), LAMBDA u : IsNullId(u.lms_id))

\* FROM lms_user l, cs_user c: the pairs, in the order of sqlite's nested
\* loop over cs_user and then lms_user (the query asks for no order)
CrossJoin(lms, cs) ==
    [k \in 1..(Len(cs) * Len(lms)) |->
        [l |-> lms[((k - 1) % Len(lms)) + 1], c |-> cs[((k - 1) \div Len(lms)) + 1]]]

\* the EXISTS subquery left out
owner_exists_always(lms, c) == TRUE

owner_exists(lms, c) ==
    \E i \in 1..Len(lms) : SqlEqId(lms[i].id, c.external_id)

\* the WHERE clause without "c.external_id != l.id"
conflicted_where_any_id(lms, p) ==
    /\ SqlEq(p.c.username, p.l.username) \/ SqlEq(p.c.email, p.l.email)
    /\ owner_exists(lms, p.c)

conflicted_where(lms, p) ==
    /\ SqlEq(p.c.username, p.l.username) \/ SqlEq(p.c.email, p.l.email)
    /\ SqlNeId(p.c.external_id, p.l.id)
    /\ owner_exists(lms, p.c)

get_conflicted_cs_users(lms, cs) ==
    LET hits == SelectSeq(CrossJoin(lms.rows, cs.rows),
                          LAMBDA p : conflicted_where(lms.rows, p))
    IN [i \in 1..Len(hits) |-> JoinedUser(hits[i].c, hits[i].l)]

----------------------------------------------------------------------------
(* Reporter *)

\* csv.writer: the header row, then one row per user
dump_csv(users) ==
    <<JoinedUser_fields>> \o
    [i \in 1..Len(users) |-> [f \in Range(JoinedUser_fields) |-> users[i][f]]]

\* one line 'db.users.remove({_id: "<cs_id>"}) // <u>' per user
dump_cs_deletes(users) ==
    [i \in 1..Len(users) |->
        [remove |-> [_id |-> str(users[i].cs_id)], comment |-> users[i]]]

\* the loop of the fix branch without the test of cs_read_count
del_users_all(users) == users

\* the loop of the fix branch: the users kept for deletion
del_users(users) == SelectSeq(users, LAMBDA u : ~(u.cs_read_count # 0))

\* the loop of the fix branch: one warning per user skipped
fix_warnings(users) ==
    LET skipped == SelectSeq(users, LAMBDA u : u.cs_read_count # 0)
    IN [i \in 1..Len(skipped) |-> [level |-> "WARNING", skipping |-> skipped[i]]]

----------------------------------------------------------------------------
(* The live stores *)

lms_account(id) == [id |-> id, username |-> UserNames[id], email |-> UserEmails[id]]

\* a users document; read_states is absent until the user has read a thread
cs_document(id, active) ==
    IF active
    THEN [external_id |-> str(id), username |-> UserNames[id],
          email |-> UserEmails[id], read_states |-> <<"t1", "t2", "t3">>]
    ELSE [external_id |-> str(id), username |-> UserNames[id],
          email |-> UserEmails[id]]

\* a user registers: the account is created on the lms and in the cs
CreateUser ==
    /\ Len(csStore) < MaxUsers
    /\ \E active \in BOOLEAN :
        LET id == Len(csStore) + 1
        IN /\ lmsStore' = Append(lmsStore, lms_account(id))
           /\ csStore' = Append(csStore, cs_document(id, active))
    /\ UNCHANGED <<lms_user, cs_user, cmd, status, cur, o_users, c_users,
                   stdout, log, loaded>>

\* legacy lms behaviour: the cs user is created, then the lms rolls back
CreateUserRolledBack ==
    /\ Len(csStore) < MaxUsers
    /\ csStore' = Append(csStore, cs_document(Len(csStore) + 1, FALSE))
    /\ UNCHANGED <<lmsStore, lms_user, cs_user, cmd, status, cur, o_users,
                   c_users, stdout, log, loaded>>

----------------------------------------------------------------------------
(* The commands *)

\* the loaders that completed, the one completing now moved to the end
Completed(name) == SelectSeq(loaded, LAMBDA n : n # name) \o <<name>>

\* python clean_cs_users.py loadlms HOST PORT DB USER
LoadLms ==
    \E failAt \in 0..Fetches(Len(lmsStore)) :
        LET r == load_lms_users(lmsStore, Connect(lms_user, cs_user), failAt)
        IN /\ lms_user' = r.cx.disk.lms_user
           /\ cs_user' = r.cx.disk.cs_user
           /\ cmd' = "loadlms"
           /\ status' = IF r.ok THEN "ok" ELSE "failed"
           /\ cur' = lmsStore
           /\ loaded' = IF r.ok THEN Completed("loadlms") ELSE loaded
           /\ o_users' = <<>> /\ c_users' = <<>> /\ stdout' = <<>> /\ log' = <<>>
           /\ UNCHANGED <<lmsStore, csStore>>

\* python clean_cs_users.py loadcs HOST PORT DB USER
LoadCs ==
    \E failAt \in 0..(Len(csStore) + 1) :
        LET r == load_cs_users(csStore, Connect(lms_user, cs_user), failAt)
        IN /\ lms_user' = r.cx.disk.lms_user
           /\ cs_user' = r.cx.disk.cs_user
           /\ cmd' = "loadcs"
           /\ status' = IF r.ok THEN "ok" ELSE "failed"
           /\ cur' = csStore
           /\ loaded' = IF r.ok THEN Completed("loadcs") ELSE loaded
           /\ o_users' = <<>> /\ c_users' = <<>> /\ stdout' = <<>> /\ log' = <<>>
           /\ UNCHANGED <<lmsStore, csStore>>

\* python clean_cs_users.py check
Check ==
    LET sane == sanity_check(lms_user, cs_user)
        o == get_orphaned_cs_users(lms_user, cs_user)
        c == get_conflicted_cs_users(lms_user, cs_user)
    IN /\ cmd' = "check"
       /\ status' = sane
       /\ IF sane = "ok"
          THEN /\ o_users' = o
               /\ c_users' = c
               /\ stdout' = dump_csv(o \o c)
          ELSE o_users' = <<>> /\ c_users' = <<>> /\ stdout' = <<>>
       /\ log' = <<>>
       /\ cur' = <<>>
       /\ UNCHANGED <<lmsStore, csStore, lms_user, cs_user, loaded>>

\* the fix branch without its call of sanity_check
Fix_unchecked ==
    LET o == get_orphaned_cs_users(lms_user, cs_user)
        c == get_conflicted_cs_users(lms_user, cs_user)
    IN /\ cmd' = "fix"
       /\ status' = "ok"
       /\ o_users' = o
       /\ c_users' = c
       /\ log' = fix_warnings(o \o c)
       /\ stdout' = dump_cs_deletes(del_users(o \o c))
       /\ cur' = <<>>
       /\ UNCHANGED <<lmsStore, csStore, lms_user, cs_user, loaded>>

\* python clean_cs_users.py fix
Fix ==
    LET sane == sanity_check(lms_user, cs_user)
        o == get_orphaned_cs_users(lms_user, cs_user)
        c == get_conflicted_cs_users(lms_user, cs_user)
    IN /\ cmd' = "fix"
       /\ status' = sane
       /\ IF sane = "ok"
          THEN /\ o_users' = o
               /\ c_users' = c
               /\ log' = fix_warnings(o \o c)
               /\ stdout' = dump_cs_deletes(del_users(o \o c))
          ELSE o_users' = <<>> /\ c_users' = <<>> /\ log' = <<>> /\ stdout' = <<>>
       /\ cur' = <<>>
       /\ UNCHANGED <<lmsStore, csStore, lms_user, cs_user, loaded>>

\* the two queries called on the staged tables as they are
Queries ==
    /\ cmd' = "queries"
    /\ status' = "ok"
    /\ o_users' = get_orphaned_cs_users(lms_user, cs_user)
    /\ c_users' = get_conflicted_cs_users(lms_user, cs_user)
    /\ stdout' = <<>> /\ log' = <<>> /\ cur' = <<>>
    /\ UNCHANGED <<lmsStore, csStore, lms_user, cs_user, loaded>>

\* sanity_check called on the staged tables as they are
SanityCheck ==
    /\ cmd' = "sanity_check"
    /\ status' = sanity_check(lms_user, cs_user)
    /\ o_users' = <<>> /\ c_users' = <<>> /\ stdout' = <<>> /\ log' = <<>>
    /\ cur' = <<>>
    /\ UNCHANGED <<lmsStore, csStore, lms_user, cs_user, loaded>>

----------------------------------------------------------------------------
(* Specifications *)

Idle ==
    /\ cmd = "none" /\ status = "none" /\ cur = <<>>
    /\ o_users = <<>> /\ c_users = <<>> /\ stdout = <<>> /\ log = <<>>
    /\ loaded = <<>>

\* the stores are empty and clean_cs_users.db does not exist yet
Init ==
    /\ lmsStore = <<>> /\ csStore = <<>>
    /\ lms_user = NoTable /\ cs_user = NoTable
    /\ Idle

Next == CreateUser \/ CreateUserRolledBack \/ LoadLms \/ LoadCs \/ Check \/ Fix

\* the whole tool, the stores gaining users and orphans while it runs
Spec == Init /\ [][Next]_vars

NextGrow == CreateUser \/ LoadLms \/ LoadCs \/ Check \/ Fix

\* the whole tool, every new user being created in both stores
SpecGrow == Init /\ [][NextGrow]_vars

SeqsUpTo(S, n) == UNION {[1..k -> S] : k \in 0..n}

\* the rows of a set, one after the other
RECURSIVE SetToSeq(_)
SetToSeq(S) ==
    IF S = {} THEN <<>>
    ELSE LET x == CHOOSE y \in S : TRUE IN <<x>> \o SetToSeq(S \ {x})

\* the tables of at most n distinct rows of S
TablesUpTo(S, n) ==
    {[exists |-> TRUE, rows |-> SetToSeq(R)] : R \in {Range(f) : f \in SeqsUpTo(S, n)}}

LmsRows == [id : LmsIds, username : Range(Names), email : Range(Emails)]
CsRows  == [external_id : CsIds, username : Range(Names),
            email : Range(Emails), read_count : ReadCounts]

\* any pair of staged tables of at most MaxRows distinct rows
InitStaged ==
    /\ lmsStore = <<>> /\ csStore = <<>>
    /\ lms_user \in TablesUpTo(LmsRows, MaxRows)
    /\ cs_user \in TablesUpTo(CsRows, MaxRows)
    /\ Idle

NextStaged == Queries \/ Fix

SpecStaged == InitStaged /\ [][NextStaged]_vars

\* staged tables of any two sizes up to MaxCount
InitSanity ==
    /\ lmsStore = <<>> /\ csStore = <<>>
    /\ \E n \in 0..MaxCount :
          lms_user = [exists |-> TRUE,
                      rows |-> [i \in 1..n |->
                          [id |-> i, username |-> str(i), email |-> str(i)]]]
    /\ \E n \in 0..MaxCount :
          cs_user = [exists |-> TRUE,
                     rows |-> [i \in 1..n |->
                         [external_id |-> i, username |-> str(i),
                          email |-> str(i), read_count |-> 0]]]
    /\ Idle

NextSanity == SanityCheck

SpecSanity == InitSanity /\ [][NextSanity]_vars

----------------------------------------------------------------------------
(* Properties *)

\* the cs_user row inside a JoinedUser
CsPart(u) ==
    [external_id |-> u.cs_id, username |-> u.cs_username, email |-> u.cs_email,
     read_count |-> u.cs_read_count]

CsPartsOf(users) == {CsPart(users[i]) : i \in 1..Len(users)}

\* the queries have run on the staged tables of this state
QueriesRan == cmd = "queries" \/ (cmd \in {"check", "fix"} /\ status = "ok")

IsOrphaned(c) == \A l \in Range(lms_user.rows) : l.id # c.external_id

IsConflicted(c) ==
    /\ \E l \in Range(lms_user.rows) : l.id = c.external_id
    /\ \E l \in Range(lms_user.rows) :
          l.id # c.external_id /\ (l.username = c.username \/ l.email = c.email)

\* C1: get_orphaned_cs_users returns exactly the cs_user rows whose
\* external_id is the id of no lms_user row (one record per such row), and
\* lms_id, lms_username and lms_email are null in every record returned.
C1_OrphanedExact ==
    QueriesRan =>
        /\ CsPartsOf(o_users) = {c \in Range(cs_user.rows) : IsOrphaned(c)}
        /\ Len(o_users) =
             Cardinality({i \in 1..Len(cs_user.rows) : IsOrphaned(cs_user.rows[i])})
        /\ \A u \in Range(o_users) :
              u.lms_id = NULL_ID /\ u.lms_username = NULL /\ u.lms_email = NULL

\* the query ran on tables holding an orphaned and a matched cs_user row
C1_Witness ==
    /\ cmd = "queries"
    /\ o_users # <<>>
    /\ \E c \in Range(cs_user.rows) : ~IsOrphaned(c)

\* C2: get_conflicted_cs_users returns exactly the cs_user rows whose owner
\* exists and for which another lms_user row has the same username or the
\* same email; lms_id differs from cs_id in every record returned.
C2_ConflictedExact ==
    QueriesRan =>
        /\ CsPartsOf(c_users) = {c \in Range(cs_user.rows) : IsConflicted(c)}
        /\ \A u \in Range(c_users) : u.lms_id # u.cs_id

\* the query ran on tables holding a conflicted and an unconflicted row
C2_Witness ==
    /\ cmd = "queries"
    /\ c_users # <<>>
    /\ \E c \in Range(cs_user.rows) : ~IsConflicted(c)

\* a removal directive for u is on stdout
HasDirective(u) ==
    \E i \in 1..Len(stdout) :
        stdout[i].comment = u /\ stdout[i].remove._id = str(u.cs_id)

HasWarning(u) == \E i \in 1..Len(log) : log[i].skipping = u

\* C3: fix emits a removal directive for a record of orphaned ++ conflicted
\* iff its cs_read_count is 0; a record with another count gets a warning
\* and no directive, and every record is dealt with.
C3_SafetyGating ==
    (cmd = "fix" /\ status = "ok") =>
        LET users == o_users \o c_users
        IN /\ \A u \in Range(users) :
                /\ HasDirective(u) <=> u.cs_read_count = 0
                /\ HasWarning(u) <=> u.cs_read_count # 0
           /\ \A i \in 1..Len(stdout) : stdout[i].comment \in Range(users)
           /\ Len(stdout) + Len(log) = Len(users)

\* fix met a record with activity, warned, and went on to emit a directive
\* for a later, conflicted record without activity
C3_Witness ==
    /\ cmd = "fix" /\ status = "ok"
    /\ \E j \in 1..Len(c_users) :
          /\ c_users[j].cs_read_count = 0
          /\ HasDirective(c_users[j])
          /\ \E i \in 1..(j - 1) :
                c_users[i].cs_read_count = 3 /\ HasWarning(c_users[i])

\* C4: sanity_check passes iff both tables are non-empty and
\* 0.75 < |lms_user| / |cs_user| < 1.33; 100/100 passes, 100/200 fails, and
\* an empty cs_user fails for every lms_user.
C4_SanityCheck ==
    cmd = "sanity_check" =>
        LET l == Len(lms_user.rows)
            c == Len(cs_user.rows)
        IN /\ status = "ok" <=>
                (l > 0 /\ c > 0 /\ 75 * c < 100 * l /\ 100 * l < 133 * c)
           /\ (l = 100 /\ c = 100) => status = "ok"
           /\ (l = 100 /\ c = 200) => status # "ok"
           /\ c = 0 => status # "ok"

\* sanity_check passed on 100 and 100 rows
C4_Witness ==
    /\ cmd = "sanity_check" /\ status = "ok"
    /\ Len(lms_user.rows) = 100 /\ Len(cs_user.rows) = 100

SaneTables ==
    /\ lms_user.exists /\ cs_user.exists
    /\ Len(lms_user.rows) > 0 /\ Len(cs_user.rows) > 0
    /\ 75 * Len(cs_user.rows) < 100 * Len(lms_user.rows)
    /\ 100 * Len(lms_user.rows) < 133 * Len(cs_user.rows)

BothLoaded == {"loadlms", "loadcs"} \subseteq Range(loaded)

\* C5: check and fix write output only if the sanity check passes on the
\* staged tables, which needs both loaders to have completed before; when it
\* fails the invocation ends with nothing written.
C5_NoReportUnlessSane ==
    cmd \in {"check", "fix"} =>
        /\ status = "ok" <=> SaneTables
        /\ (stdout # <<>> \/ log # <<>>) => (SaneTables /\ BothLoaded)
        /\ SaneTables => BothLoaded
        /\ status # "ok" =>
              (stdout = <<>> /\ log = <<>> /\ o_users = <<>> /\ c_users = <<>>)

\* fix wrote a directive after both loaders had completed
C5_Witness == cmd = "fix" /\ stdout # <<>> /\ BothLoaded

\* C6: after a completed load the staged table holds exactly the rows of the
\* source, whatever it held before.
C6_FullReplace ==
    /\ (cmd = "loadlms" /\ status = "ok") =>
          lms_user = [exists |-> TRUE, rows |-> cur]
    /\ (cmd = "loadcs" /\ status = "ok") =>
          /\ cs_user.exists
          /\ Len(cs_user.rows) = Len(cur)
          /\ \A i \in 1..Len(cur) :
                /\ str(cs_user.rows[i].external_id) = cur[i].external_id
                /\ cs_user.rows[i].username = cur[i].username
                /\ cs_user.rows[i].email = cur[i].email
                /\ cs_user.rows[i].read_count =
                     (IF "read_states" \in DOMAIN cur[i]
                      THEN Len(cur[i].read_states) ELSE 0)

\* loadlms completed over several batches, after loadcs and new users
C6_Witness ==
    /\ cmd = "loadlms" /\ status = "ok"
    /\ Len(cur) > FETCHMANY_SIZE
    /\ loaded = <<"loadcs", "loadlms">>
    /\ Len(cs_user.rows) < Len(lms_user.rows)

\* C7: a load_lms_users that fails leaves a staged lms_user snapshot as it
\* was before the load began.
C7_AtomicLoad ==
    [][(cmd' = "loadlms" /\ status' = "failed" /\ lms_user.rows # <<>>)
          => lms_user' = lms_user]_vars

HasLiveLmsAccount(u) == \E l \in Range(lmsStore) : l.id = u.cs_id

Reported == cmd \in {"check", "fix"} /\ status = "ok"

Alice == [id |-> 1, username |-> "alice", email |-> "a@x.com"]
CsAlice == [external_id |-> 1, username |-> "alice", email |-> "a@x.com",
            read_count |-> 0]
CsBob == [external_id |-> 2, username |-> "bob", email |-> "b@x.com",
          read_count |-> 0]

\* the staged tables of the scenario
Scenario ==
    /\ lms_user = [exists |-> TRUE, rows |-> <<Alice>>]
    /\ Len(cs_user.rows) = 2 /\ Range(cs_user.rows) = {CsAlice, CsBob}

ScenarioQueries ==
    (Scenario /\ cmd = "queries") =>
        o_users = <<JoinedUser(CsBob, NullLms)>> /\ c_users = <<>>

\* C9 as claimed: in the scenario the orphaned users are the record of id 2,
\* no user is conflicted, and fix writes one removal directive, for id 2.
C9_ScenarioDirective ==
    /\ ScenarioQueries
    /\ (Scenario /\ cmd = "fix") =>
          Len(stdout) = 1 /\ stdout[1].remove._id = "2"

\* C9 amended: in the scenario the orphaned users are the record of id 2,
\* no user is conflicted, and fix ends in sanity_check (1 / 2 is not above
\* 0.75) with nothing written.
C9_ScenarioAborts ==
    /\ ScenarioQueries
    /\ (Scenario /\ cmd = "fix") =>
          status = "AssertionError" /\ stdout = <<>> /\ log = <<>>

\* fix ran on the scenario's tables
C9_Witness == Scenario /\ cmd = "fix" /\ status = "AssertionError"

\* C10: no cs_user row is returned by both get_orphaned_cs_users and
\* get_conflicted_cs_users.
C10_Disjoint ==
    QueriesRan => CsPartsOf(o_users) \cap CsPartsOf(c_users) = {}

\* both queries returned records, the orphaned one sharing its username
\* with an lms_user row
C10_Witness ==
    /\ cmd = "queries"
    /\ c_users # <<>>
    /\ \E u \in Range(o_users) :
          \E l \in Range(lms_user.rows) : l.username = u.cs_username

====
